---- MODULE Spec2Model ----
\* FRI prover / verifier of VanhGer/ministark:
\*   mini-stark/src/fri.rs  FriOptions, FriProver (build_layers, into_proof),
\*                          FriVerifier::new, apply_drp, fold_positions, query_layer
\*   stark/src/fri.rs       Fri (commit, prove, verify), interpolate
EXTENDS Integers, Sequences, FiniteSets, TLC

VARIABLES
    pc,         \* position of the mini-stark prover / verifier run
    options,    \* FriOptions {blowup_factor, folding_factor, max_remainder_size}
    input,      \* the caller's inputs: degree bound d and the polynomial
    prover,     \* FriProver.layers, the moving `evaluations` buffer, loop counters;
                \* alphas, codewords, opened: what each iteration drew, folded, opened
    channel,    \* the prover's transcript (ProverChannel) and the calls made on it
    proof,      \* FriProof {layers, remainder} as sent to the verifier
    verifier,   \* FriVerifier fields, its PublicCoin and the calls made on it
    fri,        \* stark/src/fri.rs: the Fri run (commit, query, verify)
    call        \* one call of a function on a caller's arguments, and what it returned

vars == <<pc, options, input, prover, channel, proof, verifier, fri, call>>

-----------------------------------------------------------------------------
\* Bounds of the model

MaxLogDegree == 1      \* degree bounds d are 2^0 .. 2^MaxLogDegree

BlowupFactors == {2, 4}
FoldingFactors == {2, 4}
Coefficients == {0, 1}
MaxRemainderSizes == {1, 2, 4}
QueryInputs == {<<>>, <<0>>, <<1, 0>>, <<3, 1, 1>>}

-----------------------------------------------------------------------------
\* The field F (GpuField): the prime field of order P, with its multiplicative
\* generator and two-adicity.

P == 97
GENERATOR == 5
TWO_ADICITY == 5

Add(a, b) == (a + b) % P
Sub(a, b) == (a + P - b) % P
Mul(a, b) == (a * b) % P

RECURSIVE Pow(_, _)
Pow(b, e) ==
    IF e = 0 THEN 1
    ELSE LET h == Pow(b, e \div 2)
             s == Mul(h, h)
         IN  IF e % 2 = 1 THEN Mul(s, b) ELSE s

Inv(a) == Pow(a, P - 2)
Div(a, b) == Mul(a, Inv(b))

RECURSIVE IntPow(_, _)
IntPow(b, e) == IF e = 0 THEN 1 ELSE b * IntPow(b, e - 1)

IsPowerOfTwo(n) == \E e \in 0..16 : n = IntPow(2, e)

\* usize::next_power_of_two: the least power of two >= n (1 for n = 0)
RECURSIVE NextPowerOfTwoFrom(_, _)
NextPowerOfTwoFrom(n, p) == IF p >= n THEN p ELSE NextPowerOfTwoFrom(n, 2 * p)
NextPowerOfTwo(n) == NextPowerOfTwoFrom(n, 1)

\* Radix2EvaluationDomain::new_coset(n, offset): the domain has
\* n.next_power_of_two() points offset * w^i; None when the field has no subgroup
\* of that size.
DomainSize(n) == NextPowerOfTwo(n)
DomainExists(n) == DomainSize(n) <= IntPow(2, TWO_ADICITY)
RootOfUnity(size) == Pow(GENERATOR, (P - 1) \div size)

\* Evaluation of the polynomial with coefficients c (c[1] the constant term) at x
RECURSIVE HornerFrom(_, _, _)
HornerFrom(c, x, j) ==
    IF j > Len(c) THEN 0 ELSE Add(c[j], Mul(x, HornerFrom(c, x, j + 1)))
Evaluate(c, x) == HornerFrom(c, x, 1)

\* Vec::resize(size, zero): truncate or pad with zeros
Resize(s, size) == [i \in 1..size |-> IF i <= Len(s) THEN s[i] ELSE 0]

\* domain.fft(coeffs): evaluations of the polynomial on offset * <w>, w of order size
CosetFft(coeffs, size, offset) ==
    LET w == RootOfUnity(size)
        c == Resize(coeffs, size)
    IN  [i \in 1..size |-> Evaluate(c, Mul(offset, Pow(w, i - 1)))]

\* domain.ifft(evals): coefficients of the interpolant of evals on offset * <w>
RECURSIVE DftSum(_, _, _, _)
DftSum(e, x, size, i) ==
    IF i > size THEN 0
    ELSE Add(Mul(e[i], Pow(x, i - 1)), DftSum(e, x, size, i + 1))

CosetIfft(evals, size, offset) ==
    LET w    == RootOfUnity(size)
        winv == Inv(w)
        e    == Resize(evals, size)
        ninv == Inv(size % P)
        oinv == Inv(offset)
    IN  [j \in 1..size |->
            Mul(Mul(ninv, Pow(oinv, j - 1)), DftSum(e, Pow(winv, j - 1), size, 1))]

-----------------------------------------------------------------------------
\* FriOptions

FriOptionsNew(blowup_factor, folding_factor, max_remainder_size) ==
    [folding_factor |-> folding_factor,
     max_remainder_size |-> max_remainder_size,
     blowup_factor |-> blowup_factor]

RECURSIVE NumLayersInclusive(_, _)
NumLayersInclusive(opt, domain_size) ==
    IF domain_size >= opt.max_remainder_size /\ domain_size > 0
    THEN 1 + NumLayersInclusive(opt, domain_size \div opt.folding_factor)
    ELSE 0

RECURSIVE num_layers(_, _)
num_layers(opt, domain_size) ==
    IF domain_size > opt.max_remainder_size
    THEN 1 + num_layers(opt, domain_size \div opt.folding_factor)
    ELSE 0

RECURSIVE remainder_size(_, _)
remainder_size(opt, domain_size) ==
    IF domain_size > opt.max_remainder_size
    THEN remainder_size(opt, domain_size \div opt.folding_factor)
    ELSE domain_size

domain_offset == GENERATOR

-----------------------------------------------------------------------------
\* Collaborators of the FRI core whose code is outside the two source files

\* utils::interleave::<F, N>, in the layout build_layer documents and into_proof
\* undoes: chunk i is [LHS_i, RHS_i] for N = 2, the evaluations i, i + n, .. of
\* the N consecutive parts of length n = len / N
interleave(evaluations, N) ==
    LET n == Len(evaluations) \div N
    IN  [i \in 1..n |-> [j \in 1..N |-> evaluations[(i - 1) + (j - 1) * n + 1]]]

\* MerkleTree::new(leaves): a tree over the leaf digests; its root binds all leaves
MerkleTreeNew(leaves) == [leaves |-> leaves]
MerkleRoot(tree) == [root |-> tree.leaves]
\* MerkleTree::prove(index): the inclusion proof carries the claimed root first
MerkleProve(tree, pos) == [path |-> <<MerkleRoot(tree), tree.leaves[pos + 1]>>]
MerkleProveFails(tree, pos) == pos >= Len(tree.leaves)
\* MerkleProof::parse: the digests of the proof, the root first
MerkleParse(merkle_proof) == merkle_proof.path

\* PublicCoin / ProverChannel: reseed absorbs a digest, draw derives a field
\* element from everything absorbed so far and the number of draws since.
Mix(h, x) == (h * 31 + x + 7) % P
RECURSIVE MixSeq(_, _)
MixSeq(h, s) == IF s = <<>> THEN h ELSE MixSeq(Mix(h, Head(s)), Tail(s))
LeafNum(leaf) == MixSeq(1, leaf.digest)
RootNum(r) == MixSeq(3, [i \in 1..Len(r.root) |-> LeafNum(r.root[i])])

CoinNew(seed) == [seed |-> <<seed>>, counter |-> 0]
CoinReseed(coin, digest) == [seed |-> Append(coin.seed, RootNum(digest)), counter |-> 0]
CoinDraw(coin) == Mix(MixSeq(5, coin.seed), coin.counter)
CoinAfterDraw(coin) == [coin EXCEPT !.counter = @ + 1]

NoDigest == [root |-> <<>>]
CommitEvent(root) == [op |-> "commit", root |-> root, alpha |-> 0]
DrawEvent(alpha) == [op |-> "draw", root |-> NoDigest, alpha |-> alpha]

\* channel.commit_fri_layer(root) / channel.draw_fri_alpha()
commit_fri_layer(ch, root) ==
    [coin |-> CoinReseed(ch.coin, root), log |-> Append(ch.log, CommitEvent(root))]
draw_fri_alpha(ch) ==
    [coin |-> CoinAfterDraw(ch.coin), log |-> Append(ch.log, DrawEvent(CoinDraw(ch.coin)))]
LastDrawn(ch) == ch.log[Len(ch.log)].alpha

-----------------------------------------------------------------------------
\* Degree-respecting projection

\* alpha_powers[i] = alpha^i, i in 0..folding_factor-1
AlphaPowers(alpha, folding_factor) == [i \in 1..folding_factor |-> Pow(alpha, i - 1)]

\* chunk.iter().zip(alpha_powers).map(|(v, a)| v * a).sum() over chunks of
\* folding_factor coefficients (the last chunk may be shorter)
RECURSIVE ChunkSum(_, _, _, _, _)
ChunkSum(coeffs, alpha_powers, start, j, folding_factor) ==
    IF j > folding_factor \/ start + j > Len(coeffs) THEN 0
    ELSE Add(Mul(coeffs[start + j], alpha_powers[j]),
             ChunkSum(coeffs, alpha_powers, start, j + 1, folding_factor))

DrpCoeffs(coeffs, alpha, folding_factor) ==
    LET alpha_powers == AlphaPowers(alpha, folding_factor)
        chunks == (Len(coeffs) + folding_factor - 1) \div folding_factor
    IN  [c \in 1..chunks |->
            ChunkSum(coeffs, alpha_powers, (c - 1) * folding_factor, 1, folding_factor)]

ApplyDrpSameOffset(evals, offset, alpha, folding_factor) ==
    LET n          == Len(evals)
        coeffs     == CosetIfft(evals, DomainSize(n), offset)
        drp_coeffs == DrpCoeffs(coeffs, alpha, folding_factor)
        drp_size   == DomainSize(n \div folding_factor)
    IN  CosetFft(drp_coeffs, drp_size, offset)

apply_drp(evals, offset, alpha, folding_factor) ==
    LET n          == Len(evals)
        coeffs     == CosetIfft(evals, DomainSize(n), offset)
        drp_coeffs == DrpCoeffs(coeffs, alpha, folding_factor)
        drp_offset == Pow(offset, folding_factor)
        drp_size   == DomainSize(n \div folding_factor)
    IN  CosetFft(drp_coeffs, drp_size, drp_offset)

\* the two new_coset(..).unwrap() calls of apply_drp
ApplyDrpPanics(evals, folding_factor) ==
    \/ ~DomainExists(Len(evals))
    \/ ~DomainExists(Len(evals) \div folding_factor)

-----------------------------------------------------------------------------
\* FriProver

SupportedBuild == {2, 4, 8, 16}
SupportedQuery == {2, 4, 6, 8, 16}

\* serialize_compressed + D::new().update().finalize() of one k-tuple
HashChunk(chunk) == [digest |-> chunk]

RECURSIVE Flatten(_)
Flatten(chunks) == IF chunks = <<>> THEN <<>> ELSE Head(chunks) \o Flatten(Tail(chunks))

LayerTreeNatural(evaluations, N) ==
    MerkleTreeNew([i \in 1..Len(evaluations) |-> HashChunk(<<evaluations[i]>>)])

\* the tree build_layer commits to
LayerTree(evaluations, N) ==
    LET interleaved_evals == interleave(evaluations, N)
    IN  MerkleTreeNew([i \in 1..Len(interleaved_evals) |-> HashChunk(interleaved_evals[i])])

\* the evaluations build_layer stores in the layer
LayerEvaluations(evaluations, N) == Flatten(interleave(evaluations, N))

BuildLayerChannelDrawFirst(ch, root) == commit_fri_layer(draw_fri_alpha(ch), root)

\* build_layer's use of the channel: commit the root, then draw alpha
BuildLayerChannel(ch, root) == draw_fri_alpha(commit_fri_layer(ch, root))

\* the fold of build_layer
BuildLayerFold(evaluations, alpha, opt) ==
    apply_drp(evaluations, domain_offset, alpha, opt.folding_factor)

PushLayerFront(layers, tree, evaluations) ==
    <<[tree |-> tree, evaluations |-> evaluations]>> \o layers

\* self.layers.push(FriLayer {..})
PushLayer(layers, tree, evaluations) ==
    Append(layers, [tree |-> tree, evaluations |-> evaluations])

BuildLayersIterationsNoRemainder(opt, n) == num_layers(opt, n)

\* the loop range of build_layers
BuildLayersIterations(opt, n) == num_layers(opt, n) + 1

FriProverNew(evaluations) ==
    [layers |-> <<>>, evaluations |-> evaluations, alphas |-> <<>>, codewords |-> <<>>,
     iter |-> 0, iterations |-> 0, query_positions |-> <<>>, opened |-> <<>>,
     panic |-> "none"]

-----------------------------------------------------------------------------
\* Position folding and layer queries

MapModInclusive(positions, max) ==
    [i \in 1..Len(positions) |-> positions[i] % (max + 1)]

\* positions.iter().map(|pos| pos % max)
MapMod(positions, max) == [i \in 1..Len(positions) |-> positions[i] % max]

\* res.sort()
RECURSIVE Insert(_, _)
Insert(x, sorted) ==
    IF sorted = <<>> THEN <<x>>
    ELSE IF x <= Head(sorted) THEN <<x>> \o sorted
    ELSE <<Head(sorted)>> \o Insert(x, Tail(sorted))
RECURSIVE Sort(_)
Sort(s) == IF s = <<>> THEN <<>> ELSE Insert(Head(s), Sort(Tail(s)))

\* res.dedup(): drops consecutive repeats
RECURSIVE Dedup(_)
Dedup(s) ==
    IF Len(s) <= 1 THEN s
    ELSE IF s[1] = s[2] THEN Dedup(Tail(s))
    ELSE <<s[1]>> \o Dedup(Tail(s))

FoldPositionsNoDedup(positions, max) == Sort(MapMod(positions, max))

fold_positions(positions, max) == Dedup(Sort(MapMod(positions, max)))

QueryChunkUnscaled(layer, position, N) ==
    [j \in 1..N |-> layer.evaluations[position + j]]

\* the k-tuple query_layer reads for one position
QueryChunk(layer, position, N) ==
    LET i == position * N
    IN  [j \in 1..N |-> layer.evaluations[i + j]]

\* the slice layer.evaluations[i..i + N] is out of range
QueryChunkPanics(layer, position, N) == position * N + N > Len(layer.evaluations)

\* FriProofLayer::new: the k-tuples flattened, the proofs as given
FriProofLayerNew(values, proofs) == [values |-> Flatten(values), proofs |-> proofs]

query_layer(layer, positions, N) ==
    FriProofLayerNew([j \in 1..Len(positions) |-> QueryChunk(layer, positions[j], N)],
                     [j \in 1..Len(positions) |-> MerkleProve(layer.tree, positions[j])])

QueryLayerPanic(layer, positions, N) ==
    IF \E j \in 1..Len(positions) : MerkleProveFails(layer.tree, positions[j])
    THEN "merkle_proof"
    ELSE IF \E j \in 1..Len(positions) : QueryChunkPanics(layer, positions[j], N)
    THEN "slice_index"
    ELSE "none"

\* the loop of into_proof over the layers but the last; acc collects the proof
\* layers and the positions each layer was opened at
RECURSIVE QueryLoop(_, _, _, _, _, _)
QueryLoop(layers, l, positions, domain_size, folding_factor, acc) ==
    IF l >= Len(layers) THEN acc
    ELSE LET num_eval_chunks == domain_size \div folding_factor
         IN  IF positions # <<>> /\ num_eval_chunks = 0
             THEN [acc EXCEPT !.panic = "rem_by_zero"]
             ELSE LET folded == fold_positions(positions, num_eval_chunks)
                  IN  IF folding_factor \notin SupportedQuery
                      THEN [acc EXCEPT !.panic = "unimplemented"]
                      ELSE IF QueryLayerPanic(layers[l], folded, folding_factor) # "none"
                      THEN [acc EXCEPT
                               !.panic = QueryLayerPanic(layers[l], folded, folding_factor),
                               !.opened = Append(@, folded)]
                      ELSE QueryLoop(layers, l + 1, folded, num_eval_chunks, folding_factor,
                               [acc EXCEPT
                                  !.layers = Append(@, query_layer(layers[l], folded,
                                                                   folding_factor)),
                                  !.opened = Append(@, folded)])

DeinterleaveCopy(last_evals, folding_factor) == last_evals

\* remainder[i + num_eval_chunks * j] = last_evals[i * folding_factor + j]
Deinterleave(last_evals, folding_factor) ==
    LET num_eval_chunks == Len(last_evals) \div folding_factor
    IN  [m \in 1..Len(last_evals) |->
            IF num_eval_chunks = 0 \/ (m - 1) \div num_eval_chunks >= folding_factor THEN 0
            ELSE last_evals[((m - 1) % num_eval_chunks) * folding_factor
                            + ((m - 1) \div num_eval_chunks) + 1]]

\* into_proof on a prover that holds at least one layer
IntoProof(layers, positions, opt) ==
    LET acc == QueryLoop(layers, 1, positions, Len(layers[1].evaluations),
                         opt.folding_factor,
                         [panic |-> "none", layers |-> <<>>, opened |-> <<>>])
    IN  [panic |-> acc.panic, opened |-> acc.opened, layers |-> acc.layers,
         remainder |-> IF acc.panic = "none"
                       THEN Deinterleave(layers[Len(layers)].evaluations, opt.folding_factor)
                       ELSE <<>>]

-----------------------------------------------------------------------------
\* FriVerifier::new

ReseedEvent(root) == [op |-> "reseed", root |-> root, alpha |-> 0]

VerifierAbsorbDrawFirst(v, layer_root) ==
    LET alpha == CoinDraw(v.coin)
    IN  [v EXCEPT
           !.coin = CoinReseed(CoinAfterDraw(v.coin), layer_root),
           !.log = @ \o <<DrawEvent(alpha), ReseedEvent(layer_root)>>,
           !.layer_alphas = Append(@, alpha),
           !.layer_commitments = Append(@, layer_root)]

\* one pass of the loop body up to the divisibility check
VerifierAbsorb(v, layer_root) ==
    LET alpha == CoinDraw(CoinReseed(v.coin, layer_root))
    IN  [v EXCEPT
           !.coin = CoinAfterDraw(CoinReseed(v.coin, layer_root)),
           !.log = @ \o <<ReseedEvent(layer_root), DrawEvent(alpha)>>,
           !.layer_alphas = Append(@, alpha),
           !.layer_commitments = Append(@, layer_root)]

TruncatedInverted(i, n, layer_codeword_len, folding_factor) ==
    i # n - 1 /\ layer_codeword_len % folding_factor = 0

TruncatedAnyLayer(i, n, layer_codeword_len, folding_factor) ==
    layer_codeword_len % folding_factor # 0

\* the check that returns CodewordTruncation at layer i (0-based) of n layers
Truncated(i, n, layer_codeword_len, folding_factor) ==
    i # n - 1 /\ layer_codeword_len % folding_factor # 0

RECURSIVE VerifierLoop(_, _, _, _)
VerifierLoop(v, proof_layers, i, folding_factor) ==
    IF i >= Len(proof_layers) THEN [v EXCEPT !.result = "ok"]
    ELSE IF proof_layers[i + 1].proofs = <<>> \/ MerkleParse(proof_layers[i + 1].proofs[1]) = <<>>
    THEN [v EXCEPT !.result = "panic"]
    ELSE LET layer_root == MerkleParse(proof_layers[i + 1].proofs[1])[1]
             w == VerifierAbsorb(v, layer_root)
         IN  IF Truncated(i, Len(proof_layers), w.layer_codeword_len, folding_factor)
             THEN [w EXCEPT !.result = "truncation",
                            !.error = <<w.layer_codeword_len, folding_factor, i>>]
             ELSE VerifierLoop([w EXCEPT !.layer_codeword_len = @ \div folding_factor],
                               proof_layers, i + 1, folding_factor)

NoVerifier ==
    [coin |-> CoinNew(0), log |-> <<>>, layer_alphas |-> <<>>, layer_commitments |-> <<>>,
     domain_size |-> 0, layer_codeword_len |-> 0, result |-> "none", error |-> <<>>]

FriVerifierNew(public_coin, opt, prf, max_poly_degree) ==
    LET domain_size == NextPowerOfTwo(max_poly_degree) * opt.blowup_factor
        v0 == [NoVerifier EXCEPT !.coin = public_coin, !.domain_size = domain_size,
                                 !.layer_codeword_len = domain_size]
    IN  IF ~DomainExists(domain_size) THEN [v0 EXCEPT !.result = "panic"]
        ELSE VerifierLoop(v0, prf.layers, 0, opt.folding_factor)

-----------------------------------------------------------------------------
\* stark/src/fri.rs: Fri<P: Config>, with Fx = Fp = F

\* crate::ceil_power_of_two
ceil_power_of_two(n) == NextPowerOfTwo(n)

\* usize::ilog2
RECURSIVE ilog2(_)
ilog2(n) == IF n <= 1 THEN 0 ELSE 1 + ilog2(n \div 2)

\* Config::NUM_COLINEARITY_CHECKS
NUM_COLINEARITY_CHECKS(cfg) == cfg.SECURITY_LEVEL \div ilog2(cfg.EXPANSION_FACTOR)

\* the condition of the round loops of commit and verify
RoundCondition(cfg, len) ==
    /\ len >= ceil_power_of_two(NUM_COLINEARITY_CHECKS(cfg))
    /\ len >= cfg.EXPANSION_FACTOR

\* "only prepare next round if necessary": the break of commit
LastRound(cfg, len) ==
    \/ len = ceil_power_of_two(NUM_COLINEARITY_CHECKS(cfg))
    \/ len = cfg.EXPANSION_FACTOR

\* Merkle::new(&codeword): leafs are the codeword, root() binds them all
MerkleNew(codeword) == [leafs |-> codeword]
MerkleRootOf(tree) == [root |-> tree.leafs]

\* ProofObject
ObjMerkleRoot(root) == [kind |-> "MerkleRoot", root |-> root, data |-> <<>>]
ObjCodeword(codeword) == [kind |-> "Codeword", root |-> NoDigest, data |-> codeword]
ObjFriLeafs(a, b, c) == [kind |-> "FriLeafs", root |-> NoDigest, data |-> <<a, b, c>>]
\* Merkle::open(index).1: the authentication path of leaf index under the root
ObjMerklePath(tree, index) ==
    [kind |-> "MerklePath", root |-> MerkleRootOf(tree), data |-> <<index>>]

\* ProofStream::prover_fiat_shamir: a hash of every object pushed so far
ObjNum(obj) == MixSeq(Len(obj.kind), obj.root.root \o obj.data)
prover_fiat_shamir(stream) == MixSeq(11, [i \in 1..Len(stream) |-> ObjNum(stream[i])])

\* the split-and-fold of commit (lines 111-125), as written
SplitAndFold(codeword, alpha, omega, offset) ==
    LET n   == Len(codeword)
        two == Add(1, 1)
    IN  [i \in 1..(n \div 2) |->
            LET l == codeword[i]
                r == codeword[n \div 2 + i]
                x == Mul(offset, Pow(omega, i - 1))
                y == Mul(offset, Pow(omega, n \div 2 + i - 1))
            IN  Div(Add(Add(1, Mul(Div(alpha, x), l)),
                        Mul(Sub(1, Div(alpha, y)), r)),
                    two)]

\* --- polynomials (DensePolynomial): coefficient sequences, constant term first

\* from_coefficients_vec: trailing zero coefficients are dropped
RECURSIVE Truncate(_)
Truncate(c) ==
    IF c = <<>> THEN <<>>
    ELSE IF c[Len(c)] = 0 THEN Truncate(SubSeq(c, 1, Len(c) - 1))
    ELSE c

\* Polynomial::degree: 0 for the zero polynomial
Degree(c) == IF Truncate(c) = <<>> THEN 0 ELSE Len(Truncate(c)) - 1

\* accumulator.naive_mul(x - element)
MulLinear(acc, element) ==
    [j \in 1..(Len(acc) + 1) |->
        Sub(IF j >= 2 THEN acc[j - 1] ELSE 0,
            IF j <= Len(acc) THEN Mul(element, acc[j]) ELSE 0)]

RECURSIVE ZerofierFrom(_, _, _)
ZerofierFrom(domain, i, acc) ==
    IF i > Len(domain) THEN acc
    ELSE CHOOSE r \in {ZerofierFrom(domain, i + 1, a) : a \in {MulLinear(acc, domain[i])}} :
            TRUE
zerofier_domain(domain) == ZerofierFrom(domain, 1, <<1>>)

\* root / (x - d), root a multiple of (x - d): synthetic division
RECURSIVE QuotientCoeff(_, _, _)
QuotientCoeff(root, d, j) ==
    IF j >= Len(root) THEN 0
    ELSE Add(root[j + 1], Mul(d, QuotientCoeff(root, d, j + 1)))
DivLinear(root, d) == [j \in 1..(Len(root) - 1) |-> QuotientCoeff(root, d, j)]

\* ark_ff::batch_inversion leaves zero entries as they are
BatchInv(x) == IF x = 0 THEN 0 ELSE Inv(x)

RECURSIVE InterpolateSum(_, _, _, _, _)
InterpolateSum(values, numerators, inverse_denominators, j, i) ==
    IF i > Len(values) THEN 0
    ELSE Add(Mul(numerators[i][j], Mul(values[i], inverse_denominators[i])),
             InterpolateSum(values, numerators, inverse_denominators, j, i + 1))

Numerators(domain, root) == [i \in 1..Len(domain) |-> DivLinear(root, domain[i])]
InverseDenominators(domain, numerators) ==
    [i \in 1..Len(domain) |-> BatchInv(Evaluate(numerators[i], domain[i]))]

interpolate(domain, values) ==
    CHOOSE poly \in
        {Truncate([j \in 1..Len(values) |->
                      InterpolateSum(values, numerators, inverse_denominators, j, 1)]) :
            numerators \in {Numerators(domain, root) : root \in {zerofier_domain(domain)}},
            inverse_denominators \in
                {InverseDenominators(domain, Numerators(domain, zerofier_domain(domain)))}} :
        TRUE

-----------------------------------------------------------------------------
\* The run: a caller builds the layers of a low-degree codeword, asks for a proof
\* at some query positions and hands the proof to FriVerifier::new.

Seeds == {0, 1}
Degrees == {IntPow(2, e) : e \in 0..MaxLogDegree}

\* polynomials of degree < d: constant and leading coefficient free
Polynomials(d) ==
    {[i \in 1..d |-> IF i = 1 THEN a ELSE IF i = d THEN b ELSE i] : a, b \in Coefficients}

\* a caller may also hand over evaluations of a polynomial above its degree bound
\* (degree 2d - 1): build_layers does not look at the degree
UnboundedPolynomials(d) == {[i \in 1..(2 * d) |-> i]}

NoProof == [layers |-> <<>>, remainder |-> <<>>, tampered |-> "none"]
NoFri == [pc |-> "idle"]
NoCall == [op |-> "none", pc |-> "none", args |-> <<>>, result |-> <<>>]

InitProver ==
    /\ pc = "new"
    /\ options \in {FriOptionsNew(b, k, m) :
                        b \in BlowupFactors, k \in FoldingFactors, m \in MaxRemainderSizes}
    /\ \E d \in Degrees : \E poly \in Polynomials(d) \cup UnboundedPolynomials(d) :
       \E seed \in Seeds :
          /\ input = [d |-> d, poly |-> poly, seed |-> seed]
          /\ prover = FriProverNew(CosetFft(poly, d * options.blowup_factor, domain_offset))
          /\ channel = [coin |-> CoinNew(seed), log |-> <<>>]
    /\ proof = NoProof
    /\ verifier = NoVerifier
    /\ fri = NoFri
    /\ call = NoCall

\* FriProver::build_layers: the assertion and the loop range
build_layers ==
    /\ pc \in {"new", "built"}
    /\ IF prover.layers # <<>>
       THEN /\ pc' = "panic"
            /\ prover' = [prover EXCEPT !.panic = "assert_layers_empty"]
       ELSE /\ pc' = "building"
            /\ prover' = [prover EXCEPT
                  !.iterations = BuildLayersIterations(options, Len(prover.evaluations))]
    /\ UNCHANGED <<options, input, channel, proof, verifier, fri, call>>

\* one iteration of the loop of build_layers: FriProver::build_layer
build_layer ==
    /\ pc = "building"
    /\ LET N     == options.folding_factor
           evals == prover.evaluations
           tree  == LayerTree(evals, N)
           ch    == BuildLayerChannel(channel, MerkleRoot(tree))
           alpha == LastDrawn(ch)
       IN  IF N \notin SupportedBuild
           THEN /\ pc' = "panic"
                /\ prover' = [prover EXCEPT !.panic = "unreachable"]
                /\ UNCHANGED channel
           ELSE IF ApplyDrpPanics(evals, N)
           THEN /\ pc' = "panic"
                /\ prover' = [prover EXCEPT !.panic = "new_coset"]
                /\ channel' = ch
           ELSE /\ channel' = ch
                /\ prover' = [prover EXCEPT
                      !.layers = PushLayer(@, tree, LayerEvaluations(evals, N)),
                      !.evaluations = BuildLayerFold(evals, alpha, options),
                      !.alphas = Append(@, alpha),
                      !.codewords = Append(@, evals),
                      !.iter = @ + 1]
                /\ pc' = IF prover.iter + 1 >= prover.iterations THEN "built" ELSE "building"
    /\ UNCHANGED <<options, input, proof, verifier, fri, call>>

\* FriProver::into_proof(positions)
into_proof ==
    /\ pc \in {"new", "built"}
    /\ \E positions \in QueryInputs :
          IF prover.layers = <<>>
          THEN /\ pc' = "panic"
               /\ prover' = [prover EXCEPT !.panic = "split_last"]
               /\ UNCHANGED proof
          ELSE LET r == IntoProof(prover.layers, positions, options)
               IN  /\ prover' = [prover EXCEPT !.query_positions = positions,
                                               !.opened = r.opened,
                                               !.panic = r.panic]
                   /\ IF r.panic # "none"
                      THEN pc' = "panic" /\ UNCHANGED proof
                      ELSE /\ pc' = "proved"
                           /\ proof' = [layers |-> r.layers, remainder |-> r.remainder,
                                        tampered |-> "none"]
    /\ UNCHANGED <<options, input, channel, verifier, fri, call>>

\* FriVerifier::new(public_coin, options, proof, max_poly_degree), the coin seeded
\* as the prover's channel was
verifier_new ==
    /\ pc = "proved"
    /\ \E max_poly_degree \in 1..input.d :
          /\ NextPowerOfTwo(max_poly_degree) = input.d
          /\ verifier' = FriVerifierNew(CoinNew(input.seed), options, proof, max_poly_degree)
    /\ pc' = "verified"
    /\ UNCHANGED <<options, input, prover, channel, proof, fri, call>>

\* The soundness spot-check: one field element of an opened tuple, one digest of
\* a Merkle path, or one element of the remainder is changed before verification.
CorruptDigest(path, c) ==
    IF c = 1 THEN [path EXCEPT ![1] = [root |-> Append(@.root, HashChunk(<<>>))]]
    ELSE [path EXCEPT ![2] = [digest |-> Append(@.digest, 0)]]

tamper_value ==
    /\ pc = "proved" /\ proof.tampered = "none"
    /\ \E l \in 1..Len(proof.layers) : \E j \in 1..Len(proof.layers[l].values) :
          proof' = [proof EXCEPT !.layers[l].values[j] = (@ + 1) % P,
                                 !.tampered = "value"]
    /\ UNCHANGED <<pc, options, input, prover, channel, verifier, fri, call>>

tamper_path ==
    /\ pc = "proved" /\ proof.tampered = "none"
    /\ \E l \in 1..Len(proof.layers) : \E j \in 1..Len(proof.layers[l].proofs) :
       \E c \in 1..2 :
          proof' = [proof EXCEPT !.layers[l].proofs[j].path = CorruptDigest(@, c),
                                 !.tampered = "path"]
    /\ UNCHANGED <<pc, options, input, prover, channel, verifier, fri, call>>

tamper_remainder ==
    /\ pc = "proved" /\ proof.tampered = "none"
    /\ \E m \in 1..Len(proof.remainder) :
          proof' = [proof EXCEPT !.remainder[m] = (@ + 1) % P, !.tampered = "remainder"]
    /\ UNCHANGED <<pc, options, input, prover, channel, verifier, fri, call>>

NextProver ==
    \/ build_layers
    \/ build_layer
    \/ into_proof
    \/ tamper_value
    \/ tamper_path
    \/ tamper_remainder
    \/ verifier_new

-----------------------------------------------------------------------------
\* The split-and-fold run of stark/src/fri.rs: Fri::prove writes the proof stream,
\* Fri::verify reads it.

Configs ==
    {[EXPANSION_FACTOR |-> e, SECURITY_LEVEL |-> l] : e \in BlowupFactors, l \in {2, 3}}
CodewordRates == BlowupFactors \cup {1}

FriNew(cfg, codeword) ==
    [pc |-> "commit", cfg |-> cfg, input |-> codeword,
     codeword |-> codeword,
     omega |-> RootOfUnity(Len(codeword)), offset |-> GENERATOR,
     codewords |-> <<>>, trees |-> <<>>, stream |-> <<>>,
     indices |-> <<>>, round |-> 0, panic |-> "none",
     tampered |-> "none", verdict |-> "none", last_codeword |-> <<>>, roots |-> <<>>]

InitFri ==
    /\ pc = "idle"
    /\ options = FriOptionsNew(2, 2, 1)
    /\ input = [d |-> 1, poly |-> <<0>>, seed |-> 0]
    /\ prover = FriProverNew(<<>>)
    /\ channel = [coin |-> CoinNew(0), log |-> <<>>]
    /\ proof = NoProof
    /\ verifier = NoVerifier
    /\ call = NoCall
    /\ \E cfg \in Configs : \E d \in Degrees : \E poly \in Polynomials(d) :
       \E rate \in CodewordRates :
          fri = FriNew(cfg, CosetFft(poly, d * rate, GENERATOR))

CommitRoundPushFirst(f) ==
    LET len  == Len(f.codeword)
        tree == MerkleNew(f.codeword)
        pushed == Append(f.stream, ObjMerkleRoot(MerkleRootOf(tree)))
        alpha == prover_fiat_shamir(pushed)
    IN  IF ~RoundCondition(f.cfg, len) THEN [f EXCEPT !.pc = "commit_last"]
        ELSE IF LastRound(f.cfg, len) THEN [f EXCEPT !.pc = "commit_last", !.stream = pushed]
        ELSE [f EXCEPT
                !.stream = pushed,
                !.trees = Append(@, tree),
                !.codewords = Append(@, f.codeword),
                !.codeword = SplitAndFold(f.codeword, alpha, f.omega, f.offset),
                !.omega = Mul(@, @),
                !.offset = Mul(@, @)]

\* one pass of the while loop of Fri::commit, its condition included
CommitRound(f) ==
    LET len  == Len(f.codeword)
        tree == MerkleNew(f.codeword)
        pushed == IF f.trees # <<>>
                  THEN Append(f.stream, ObjMerkleRoot(MerkleRootOf(tree)))
                  ELSE f.stream
        alpha == prover_fiat_shamir(pushed)
    IN  IF ~RoundCondition(f.cfg, len) THEN [f EXCEPT !.pc = "commit_last"]
        ELSE IF LastRound(f.cfg, len) THEN [f EXCEPT !.pc = "commit_last", !.stream = pushed]
        ELSE [f EXCEPT
                !.stream = pushed,
                !.trees = Append(@, tree),
                !.codewords = Append(@, f.codeword),
                !.codeword = SplitAndFold(f.codeword, alpha, f.omega, f.offset),
                !.omega = Mul(@, @),
                !.offset = Mul(@, @)]

\* "send last codeword" and the return of commit
CommitLast(f) ==
    [f EXCEPT !.pc = "sample",
              !.stream = Append(@, ObjCodeword(f.codeword)),
              !.codewords = Append(@, f.codeword)]

fri_commit_round ==
    /\ fri.pc = "commit"
    /\ fri' = CommitRound(fri)
    /\ UNCHANGED <<pc, options, input, prover, channel, proof, verifier, call>>

fri_commit_last ==
    /\ fri.pc = "commit_last"
    /\ fri' = CommitLast(fri)
    /\ UNCHANGED <<pc, options, input, prover, channel, proof, verifier, call>>

\* one pass of the while loop of sample_indices(n, reduced_size, max, randomness),
\* called by prove; the DefaultHasher output of (randomness, counter) is any value
SampleAcceptsUnreduced(indices, index, reduced_size) ==
    \A j \in 1..Len(indices) : indices[j] # index

SampleAccepts(indices, index, reduced_size) ==
    \A j \in 1..Len(indices) : indices[j] % reduced_size # index % reduced_size

\* the while loop of sample_indices, started at counter: hashes[counter + 1] is
\* hasher.finish() for (randomness, counter); "running" when the loop needs a
\* hash beyond those listed
RECURSIVE SampleLoop(_, _, _, _, _, _)
SampleLoop(n, reduced_size, max, hashes, counter, indices) ==
    IF Len(indices) >= n THEN [status |-> "returned", indices |-> indices]
    ELSE IF counter >= Len(hashes) THEN [status |-> "running", indices |-> indices]
    ELSE IF max = 0 THEN [status |-> "rem_by_zero", indices |-> indices]
    ELSE LET index == hashes[counter + 1] % max
         IN  SampleLoop(n, reduced_size, max, hashes, counter + 1,
                        IF SampleAccepts(indices, index, reduced_size)
                        THEN Append(indices, index)
                        ELSE indices)

\* Fri::sample_indices(n, reduced_size, max, randomness)
sample_indices(n, reduced_size, max, hashes) ==
    IF ~(n <= reduced_size) THEN [status |-> "assert", indices |-> <<>>]
    ELSE SampleLoop(n, reduced_size, max, hashes, 0, <<>>)

fri_sample_indices ==
    /\ fri.pc = "sample"
    /\ LET n            == NUM_COLINEARITY_CHECKS(fri.cfg)
           reduced_size == ceil_power_of_two(n)
           max          == Len(fri.input) \div 2
       IN  IF Len(fri.indices) >= n
           THEN fri' = [fri EXCEPT
                          !.pc = IF fri.trees = <<>> THEN "panic" ELSE "query",
                          !.panic = IF fri.trees = <<>> THEN "trees_len_underflow" ELSE "none"]
           ELSE IF max = 0
           THEN fri' = [fri EXCEPT !.pc = "panic", !.panic = "rem_by_zero"]
           ELSE \E index \in 0..(max - 1) :
                   fri' = IF SampleAccepts(fri.indices, index, reduced_size)
                          THEN [fri EXCEPT !.indices = Append(@, index)]
                          ELSE fri
    /\ UNCHANGED <<pc, options, input, prover, channel, proof, verifier, call>>

RhsIndicesFull(curr_tree, indices) ==
    [i \in 1..Len(indices) |-> indices[i] + Len(curr_tree.leafs)]

\* Fri::query / Fri::query_last: the leafs, then the authentication paths
RhsIndices(curr_tree, indices) ==
    [i \in 1..Len(indices) |-> indices[i] + Len(curr_tree.leafs) \div 2]

QueryLeafs(curr_tree, next_leafs, indices, n) ==
    LET rhs == RhsIndices(curr_tree, indices)
    IN  [i \in 1..n |-> ObjFriLeafs(curr_tree.leafs[indices[i] + 1],
                                    curr_tree.leafs[rhs[i] + 1],
                                    next_leafs[indices[i] + 1])]

QueryPanics(curr_tree, next_leafs, indices, n) ==
    \/ n > Len(indices)
    \/ \E i \in 1..n :
          \/ indices[i] >= Len(curr_tree.leafs)
          \/ RhsIndices(curr_tree, indices)[i] >= Len(curr_tree.leafs)
          \/ indices[i] >= Len(next_leafs)

QueryPaths(curr_tree, next_tree, indices, n) ==
    LET rhs == RhsIndices(curr_tree, indices)
    IN  Flatten([i \in 1..n |-> <<ObjMerklePath(curr_tree, indices[i]),
                                  ObjMerklePath(curr_tree, rhs[i]),
                                  ObjMerklePath(next_tree, indices[i])>>])

QueryLastPaths(curr_tree, indices, n) ==
    LET rhs == RhsIndices(curr_tree, indices)
    IN  Flatten([i \in 1..n |-> <<ObjMerklePath(curr_tree, indices[i]),
                                  ObjMerklePath(curr_tree, rhs[i])>>])

\* the indices prove hands to query in round i (0-based) and to query_last
RoundIndices(f, i) ==
    [j \in 1..Len(f.indices) |-> f.indices[j] % (Len(f.codewords[i + 1]) \div 2)]
LastIndices(f) ==
    [j \in 1..Len(f.indices) |-> f.indices[j] % Len(f.codewords[Len(f.codewords)])]

fri_query ==
    /\ fri.pc = "query"
    /\ fri.round < Len(fri.trees) - 1
    /\ LET n       == NUM_COLINEARITY_CHECKS(fri.cfg)
           curr    == fri.trees[fri.round + 1]
           next    == fri.trees[fri.round + 2]
           indices == RoundIndices(fri, fri.round)
       IN  IF QueryPanics(curr, next.leafs, indices, n)
           THEN fri' = [fri EXCEPT !.pc = "panic", !.panic = "index"]
           ELSE fri' = [fri EXCEPT
                          !.stream = @ \o QueryLeafs(curr, next.leafs, indices, n)
                                       \o QueryPaths(curr, next, indices, n),
                          !.round = @ + 1]
    /\ UNCHANGED <<pc, options, input, prover, channel, proof, verifier, call>>

fri_query_last ==
    /\ fri.pc = "query"
    /\ fri.round >= Len(fri.trees) - 1
    /\ LET n       == NUM_COLINEARITY_CHECKS(fri.cfg)
           curr    == fri.trees[Len(fri.trees)]
           last    == fri.codewords[Len(fri.codewords)]
           indices == LastIndices(fri)
       IN  IF QueryPanics(curr, last, indices, n)
           THEN fri' = [fri EXCEPT !.pc = "panic", !.panic = "index"]
           ELSE fri' = [fri EXCEPT
                          !.stream = @ \o QueryLeafs(curr, last, indices, n)
                                       \o QueryLastPaths(curr, indices, n),
                          !.pc = "proved"]
    /\ UNCHANGED <<pc, options, input, prover, channel, proof, verifier, call>>

\* the "extract all roots and alphas" loop of Fri::verify; r.read is the number
\* of objects pulled so far
RECURSIVE VerifyRounds(_, _, _, _, _)
VerifyRounds(cfg, stream, codeword_len, round_len, r) ==
    IF ~RoundCondition(cfg, round_len) THEN r
    ELSE IF round_len # codeword_len
    THEN IF r.read >= Len(stream) THEN [r EXCEPT !.verdict = "panic_pull"]
         ELSE IF stream[r.read + 1].kind # "MerkleRoot"
         THEN [r EXCEPT !.verdict = "Expected root", !.read = @ + 1]
         ELSE VerifyRounds(cfg, stream, codeword_len, round_len \div 2,
                 [r EXCEPT !.roots = Append(@, stream[r.read + 1].root),
                           !.alphas = Append(@, prover_fiat_shamir(stream)),
                           !.read = @ + 1])
    ELSE VerifyRounds(cfg, stream, codeword_len, round_len \div 2,
             [r EXCEPT !.alphas = Append(@, prover_fiat_shamir(stream))])

\* the domain verify interpolates the last codeword on
LastDomain(last_codeword) ==
    LET last_omega == RootOfUnity(Len(last_codeword))
    IN  [i \in 1..Len(last_codeword) |-> Mul(GENERATOR, Pow(last_omega, i - 1))]

\* the degree bound verify computes for the last codeword
LastDegreeBound(cfg, last_codeword) == Len(last_codeword) \div cfg.EXPANSION_FACTOR

\* the checks verify makes on the last codeword once it is pulled
LastCodewordVerdict(cfg, last_root, last_codeword) ==
    IF last_root # MerkleRootOf(MerkleNew(last_codeword))
    THEN "panic_not_well_formed"
    ELSE IF ~IsPowerOfTwo(Len(last_codeword)) \/ ~DomainExists(Len(last_codeword))
    THEN "panic_root_of_unity"
    ELSE LET last_domain == LastDomain(last_codeword)
             poly == interpolate(last_domain, last_codeword)
         IN  IF [i \in 1..Len(last_domain) |-> Evaluate(poly, last_domain[i])]
                    # last_codeword
             THEN "panic_reevaluation"
             ELSE "Ok"

\* Fri::verify(proof_stream, codeword_len, combination_root)
Verify(cfg, stream, codeword_len, combination_root) ==
    LET r == VerifyRounds(cfg, stream, codeword_len, codeword_len,
                 [roots |-> <<combination_root>>, alphas |-> <<>>, read |-> 0,
                  verdict |-> "none", last_codeword |-> <<>>])
    IN  IF r.verdict # "none" THEN r
        ELSE IF r.read >= Len(stream) THEN [r EXCEPT !.verdict = "panic_pull"]
        ELSE IF stream[r.read + 1].kind # "Codeword"
        THEN [r EXCEPT !.verdict = "Expected last codeword", !.read = @ + 1]
        ELSE [r EXCEPT
                !.read = @ + 1,
                !.last_codeword = stream[r.read + 1].data,
                !.verdict = LastCodewordVerdict(cfg, r.roots[Len(r.roots)],
                                                stream[r.read + 1].data)]

\* the verifier is given the stream and the Merkle root of the initial codeword
fri_verify ==
    /\ fri.pc = "proved"
    /\ LET r == Verify(fri.cfg, fri.stream, Len(fri.input),
                       MerkleRootOf(MerkleNew(fri.input)))
       IN  fri' = [fri EXCEPT !.pc = "verified", !.verdict = r.verdict,
                              !.last_codeword = r.last_codeword, !.roots = r.roots]
    /\ UNCHANGED <<pc, options, input, prover, channel, proof, verifier, call>>

\* one field element of a pushed leaf tuple, authentication path or last codeword
\* is changed before the verifier reads the stream
fri_tamper ==
    /\ fri.pc = "proved" /\ fri.tampered = "none"
    /\ \E i \in 1..Len(fri.stream) : \E j \in 1..Len(fri.stream[i].data) :
          fri' = [fri EXCEPT !.stream[i].data[j] = (@ + 1) % P,
                             !.tampered = fri.stream[i].kind]
    /\ UNCHANGED <<pc, options, input, prover, channel, proof, verifier, call>>

NextFri ==
    \/ fri_commit_round
    \/ fri_commit_last
    \/ fri_sample_indices
    \/ fri_query
    \/ fri_query_last
    \/ fri_tamper
    \/ fri_verify

-----------------------------------------------------------------------------
\* Single calls: a caller invokes one function of mini-stark/src/fri.rs (or
\* Fri::sample_indices) on arguments of its choice; call.result is what the function returned.

CallPositions == UNION {[1..n -> 0..5] : n \in 0..3}
CallModuli == 1..4
CallDomainSizes == 0..20
CallFoldingFactors == {2, 3, 4}
CallRemainderSizes == 0..5
CallOptionFactors == {0, 1, 2, 3, 4, 6, 8, 16}
CallBlowups == {2, 3, 4}
CallPolyDegrees == 1..4
CallAlphas == {0, 2, 96}
CallOffsets == {1, GENERATOR}
CallDrpSizes == {<<2, 2>>, <<4, 2>>, <<4, 4>>, <<8, 2>>, <<8, 4>>}
CallSampleCounts == 0..2
CallReducedSizes == 0..3
CallSampleMaxima == 0..4
CallHashes == [1..3 -> 0..3]

\* a proof layer as a verifier may receive it: with one Merkle path, or with none
CallProofLayers ==
    {FriProofLayerNew(<<<<0, 0>>>>, <<MerkleProve(MerkleTreeNew(<<HashChunk(<<0, 0>>)>>), 0)>>),
     FriProofLayerNew(<<>>, <<>>)}
CallProofs ==
    {[layers |-> l, remainder |-> <<>>, tampered |-> "none"] :
        l \in UNION {[1..n -> CallProofLayers] : n \in 0..3}}

Called(op, args) == [op |-> op, pc |-> "called", args |-> args, result |-> <<>>]
Returned(result) == [call EXCEPT !.pc = "returned", !.result = result]

InitCall ==
    /\ pc = "idle"
    /\ options = FriOptionsNew(2, 2, 1)
    /\ input = [d |-> 1, poly |-> <<0>>, seed |-> 0]
    /\ prover = FriProverNew(<<>>)
    /\ channel = [coin |-> CoinNew(0), log |-> <<>>]
    /\ proof = NoProof
    /\ verifier = NoVerifier
    /\ fri = NoFri
    /\ \/ \E positions \in CallPositions : \E max \in CallModuli :
             call = Called("fold_positions", [positions |-> positions, max |-> max])
       \/ \E n \in CallDomainSizes : \E k \in CallFoldingFactors :
          \E m \in CallRemainderSizes : \E op \in {"num_layers", "remainder_size"} :
             call = Called(op, [options |-> FriOptionsNew(2, k, m), domain_size |-> n])
       \/ \E b \in 1..4 : \E k \in CallOptionFactors : \E m \in 0..4 :
             call = Called("FriOptions::new",
                           [blowup_factor |-> b, folding_factor |-> k,
                            max_remainder_size |-> m])
       \/ \E b \in CallBlowups : \E k \in FoldingFactors : \E d \in CallPolyDegrees :
          \E prf \in CallProofs :
             call = Called("FriVerifier::new",
                           [options |-> FriOptionsNew(b, k, b), proof |-> prf,
                            max_poly_degree |-> d])
       \/ \E nk \in CallDrpSizes : \E coeffs \in [1..nk[1] -> Coefficients] :
          \E alpha \in CallAlphas : \E offset \in CallOffsets :
             call = Called("apply_drp",
                           [coeffs |-> coeffs, evals |-> CosetFft(coeffs, nk[1], offset),
                            offset |-> offset, alpha |-> alpha, folding_factor |-> nk[2]])
       \/ \E n \in CallSampleCounts : \E reduced_size \in CallReducedSizes :
          \E max \in CallSampleMaxima : \E hashes \in CallHashes :
             call = Called("sample_indices",
                           [n |-> n, reduced_size |-> reduced_size, max |-> max,
                            hashes |-> hashes])

CallUnchanged == UNCHANGED <<pc, options, input, prover, channel, proof, verifier, fri>>

call_fold_positions ==
    /\ call.op = "fold_positions" /\ call.pc = "called"
    /\ call' = Returned(fold_positions(call.args.positions, call.args.max))
    /\ CallUnchanged

call_num_layers ==
    /\ call.op = "num_layers" /\ call.pc = "called"
    /\ call' = Returned(num_layers(call.args.options, call.args.domain_size))
    /\ CallUnchanged

call_remainder_size ==
    /\ call.op = "remainder_size" /\ call.pc = "called"
    /\ call' = Returned(remainder_size(call.args.options, call.args.domain_size))
    /\ CallUnchanged

\* FriOptions::new returns Self: there is no error path
call_options_new ==
    /\ call.op = "FriOptions::new" /\ call.pc = "called"
    /\ call' = Returned([error |-> "none",
                         options |-> FriOptionsNew(call.args.blowup_factor,
                                                   call.args.folding_factor,
                                                   call.args.max_remainder_size)])
    /\ CallUnchanged

call_verifier_new ==
    /\ call.op = "FriVerifier::new" /\ call.pc = "called"
    /\ call' = Returned(FriVerifierNew(CoinNew(0), call.args.options, call.args.proof,
                                       call.args.max_poly_degree))
    /\ CallUnchanged

call_apply_drp ==
    /\ call.op = "apply_drp" /\ call.pc = "called"
    /\ call' = Returned(IF ApplyDrpPanics(call.args.evals, call.args.folding_factor)
                        THEN <<>>
                        ELSE apply_drp(call.args.evals, call.args.offset, call.args.alpha,
                                       call.args.folding_factor))
    /\ CallUnchanged

call_sample_indices ==
    /\ call.op = "sample_indices" /\ call.pc = "called"
    /\ call' = Returned(sample_indices(call.args.n, call.args.reduced_size,
                                       call.args.max, call.args.hashes))
    /\ CallUnchanged

NextCall ==
    \/ call_fold_positions
    \/ call_num_layers
    \/ call_remainder_size
    \/ call_options_new
    \/ call_verifier_new
    \/ call_apply_drp
    \/ call_sample_indices

Init == InitProver \/ InitFri \/ InitCall
Next == NextProver \/ NextFri \/ NextCall
Spec == Init /\ [][Next]_vars

-----------------------------------------------------------------------------
\* Properties

N0 == input.d * options.blowup_factor
K == options.folding_factor
Honest == proof.tampered = "none"
Proved == pc \in {"proved", "verified"}
\* leaf count of layer l (1-based): n0 / k^l
LeafCount(l) == N0 \div IntPow(K, l)
Tuple(values, j) == SubSeq(values, (j - 1) * K + 1, j * K)

TamperedProofRejected ==
    /\ (pc = "verified" /\ ~Honest => verifier.result # "ok")
    /\ (fri.pc = "verified" /\ fri.tampered # "none" => fri.verdict # "Ok")

\* C3: Fri::verify accepts only if the interpolant of the last codeword has degree
\* below len / EXPANSION_FACTOR (and re-evaluates to the codeword).
RemainderDegreeChecked ==
    fri.pc = "verified" /\ fri.verdict = "Ok"
        => /\ Degree(interpolate(LastDomain(fri.last_codeword), fri.last_codeword))
                < LastDegreeBound(fri.cfg, fri.last_codeword)
           /\ [i \in 1..Len(fri.last_codeword) |->
                  Evaluate(interpolate(LastDomain(fri.last_codeword), fri.last_codeword),
                           LastDomain(fri.last_codeword)[i])] = fri.last_codeword

\* C4: the prover's channel sees commit(root_0), draw(alpha_0), commit(root_1),
\* draw(alpha_1), ... in layer order, and the codeword of layer l+1 is the fold of
\* the codeword of layer l with exactly the alpha drawn after layer l's commit.
TranscriptOrder ==
    /\ pc # "panic" => Len(channel.log) = 2 * Len(prover.layers)
    /\ \A l \in 1..Len(prover.layers) :
          /\ channel.log[2 * l - 1] = CommitEvent(MerkleRoot(prover.layers[l].tree))
          /\ channel.log[2 * l].op = "draw"
          /\ prover.layers[l].tree = LayerTree(prover.codewords[l], K)
          /\ (IF l < Len(prover.layers) THEN prover.codewords[l + 1]
              ELSE prover.evaluations)
                = apply_drp(prover.codewords[l], domain_offset, channel.log[2 * l].alpha, K)

TranscriptOrderWitness == pc = "built" /\ Len(prover.layers) >= 3

\* C5: FriVerifier::new makes the same sequence of absorb / draw calls as
\* build_layers made: as many, over the same roots, each draw after its absorb.
VerifierMirrorsProver ==
    pc = "verified" /\ Honest /\ verifier.result = "ok"
        => /\ Len(verifier.log) = Len(channel.log)
           /\ \A i \in 1..Len(verifier.log) :
                 /\ i <= Len(channel.log)
                 /\ (verifier.log[i].op = "reseed") = (channel.log[i].op = "commit")
                 /\ verifier.log[i].root = channel.log[i].root
                 /\ verifier.log[i].alpha = channel.log[i].alpha

\* C6: for every proof layer l the verifier's layer_alphas[l] is the alpha the
\* prover drew and folded layer l with, and layer_commitments[l] is the root of
\* the prover's layer-l tree.
ChallengeAgreement ==
    pc = "verified" /\ Honest /\ verifier.result = "ok"
        => /\ Len(verifier.layer_alphas) = Len(proof.layers)
           /\ Len(verifier.layer_commitments) = Len(proof.layers)
           /\ \A l \in 1..Len(proof.layers) :
                 /\ verifier.layer_alphas[l] = prover.alphas[l]
                 /\ verifier.layer_commitments[l] = MerkleRoot(prover.layers[l].tree)

ChallengeAgreementWitness ==
    /\ pc = "verified" /\ Honest /\ verifier.result = "ok"
    /\ Len(proof.layers) >= 2
    /\ Len(prover.query_positions) >= 2

\* C7: on n0 evaluations, n0 a power of two and every layer's length up to the
\* remainder divisible by k, build_layers runs num_layers(n0) + 1 iterations and
\* stops; the last layer has remainder_size(n0) / k leaves and remainder_size(n0)
\* stored evaluations.
DivisibleUpToRemainder ==
    /\ IsPowerOfTwo(N0)
    /\ \A l \in 0..num_layers(options, N0) : (N0 \div IntPow(K, l)) % K = 0

BuildLayersTermination ==
    /\ pc = "building"
          => /\ prover.iterations = num_layers(options, N0) + 1
             /\ prover.iter < prover.iterations
             /\ Len(prover.layers) = prover.iter
    /\ pc \in {"built", "proved", "verified"} /\ DivisibleUpToRemainder
          => /\ prover.iter = num_layers(options, N0) + 1
             /\ Len(prover.layers) = num_layers(options, N0) + 1
             /\ Len(prover.layers[Len(prover.layers)].tree.leaves)
                   = remainder_size(options, N0) \div K
             /\ Len(prover.layers[Len(prover.layers)].evaluations)
                   = remainder_size(options, N0)

BuildLayersTerminationWitness ==
    pc = "built" /\ DivisibleUpToRemainder /\ num_layers(options, N0) >= 2

\* C8: every stored layer l has n0 / k^(l+1) leaves and k times as many
\* evaluations, and leaf i is the hash of the k-tuple evaluations[i*k .. i*k+k].
LayerInvariant ==
    \A l \in 1..Len(prover.layers) :
        LET layer == prover.layers[l]
        IN  /\ Len(layer.tree.leaves) = LeafCount(l)
            /\ Len(layer.evaluations) = LeafCount(l) * K
            /\ \A i \in 1..Len(layer.tree.leaves) :
                  layer.tree.leaves[i] = HashChunk(Tuple(layer.evaluations, i))

LayerInvariantWitness ==
    /\ Len(prover.layers) >= 2
    /\ Len(prover.layers[2].tree.leaves) >= 2

\* C9: into_proof opens layer l (all but the last) at exactly the positions
\* { p mod L_l : p in query_positions }, L_l = n0 / k^(l+1), each once, ascending;
\* for each it carries the k-tuple evaluations[p*k .. p*k+k] and the path of leaf
\* p; no read leaves the layer's arrays.
StrictlyAscending(seq) == \A j \in 1..(Len(seq) - 1) : seq[j] < seq[j + 1]
Elements(seq) == {seq[j] : j \in 1..Len(seq)}

IntoProofPositions ==
    /\ prover.panic \notin {"merkle_proof", "slice_index"}
    /\ Proved /\ Honest
          => /\ Len(proof.layers) = Len(prover.layers) - 1
             /\ Len(prover.opened) = Len(proof.layers)
             /\ \A l \in 1..Len(proof.layers) :
                   LET opened == prover.opened[l]
                       layer  == prover.layers[l]
                   IN  /\ StrictlyAscending(opened)
                       /\ Elements(opened)
                             = {p % LeafCount(l) : p \in Elements(prover.query_positions)}
                       /\ \A j \in 1..Len(opened) :
                             /\ opened[j] < Len(layer.tree.leaves)
                             /\ opened[j] * K + K <= Len(layer.evaluations)
                             /\ Tuple(proof.layers[l].values, j)
                                   = SubSeq(layer.evaluations, opened[j] * K + 1,
                                            opened[j] * K + K)
                             /\ proof.layers[l].proofs[j]
                                   = MerkleProve(layer.tree, opened[j])

IntoProofPositionsWitness ==
    /\ pc = "proved" /\ Honest
    /\ prover.query_positions = <<3, 1, 1>>
    /\ Len(proof.layers) >= 2
    /\ Len(prover.opened[1]) = 2

\* C10: a proof layer has q paths and q*k values, q the number of distinct folded
\* positions, and the j-th path is the inclusion path, under the layer's root, of
\* the leaf that hashes the j-th k-tuple of values.
ProofLayerShape ==
    Proved /\ Honest
        => \A l \in 1..Len(proof.layers) :
              LET q == Cardinality({p % LeafCount(l) : p \in Elements(prover.query_positions)})
                  pl == proof.layers[l]
              IN  /\ Len(pl.proofs) = q
                  /\ Len(pl.values) = q * K
                  /\ \A j \in 1..q :
                        /\ MerkleParse(pl.proofs[j])[1] = MerkleRoot(prover.layers[l].tree)
                        /\ MerkleParse(pl.proofs[j])[2] = HashChunk(Tuple(pl.values, j))

ProofLayerShapeWitness ==
    /\ pc = "proved" /\ Honest
    /\ \E l \in 1..Len(proof.layers) : Len(proof.layers[l].proofs) >= 2

\* the codeword the last stored layer commits to, and the codeword that follows
\* layer l (the moving buffer after the last iteration)
LastCodeword == prover.codewords[Len(prover.codewords)]
CodewordAfter(l) ==
    IF l < Len(prover.codewords) THEN prover.codewords[l + 1] ELSE prover.evaluations

\* C11: after build_layers on n0 evaluations, into_proof returns one proof layer
\* per stored layer but the last, num_layers(n0) in all, and a remainder of
\* length remainder_size(n0).
IntoProofLengths ==
    Proved /\ Honest
        => /\ Len(proof.layers) = Len(prover.layers) - 1
           /\ Len(proof.layers) = num_layers(options, N0)
           /\ Len(proof.remainder) = remainder_size(options, N0)

\* grouping index i*N + j under leaf i, reordering nothing
GroupConsecutive(evaluations, N) ==
    [i \in 1..(Len(evaluations) \div N) |->
        [j \in 1..N |-> evaluations[(i - 1) * N + j]]]

\* C12 (as stated): build_layer stores the codeword with index i*k + j grouped
\* under leaf i, nothing reordered, and into_proof's de-interleave of that
\* storage gives the codeword back.
ConsecutiveGroupingRoundTrip ==
    Proved /\ Honest /\ DivisibleUpToRemainder
        => /\ prover.layers[Len(prover.layers)].evaluations
                 = Flatten(GroupConsecutive(LastCodeword, K))
           /\ Deinterleave(Flatten(GroupConsecutive(LastCodeword, K)), K) = LastCodeword

\* C12 (amended): build_layer stores leaf i as the evaluations i, i + L/k, ..,
\* i + (k-1)*L/k; into_proof's de-interleave of that storage gives the codeword
\* back, so the remainder is the final committed codeword in natural order.
RemainderNaturalOrder ==
    Proved /\ Honest /\ DivisibleUpToRemainder
        => /\ prover.layers[Len(prover.layers)].evaluations
                 = Flatten(interleave(LastCodeword, K))
           /\ Deinterleave(Flatten(interleave(LastCodeword, K)), K) = LastCodeword
           /\ proof.remainder = LastCodeword

RemainderNaturalOrderWitness ==
    /\ pc = "proved" /\ Honest /\ DivisibleUpToRemainder
    /\ Len(proof.remainder) >= 4
    /\ Len(proof.layers) >= 1
    /\ proof.remainder # prover.layers[Len(prover.layers)].evaluations

\* C17: build_layers never commits, draws for or stores a layer whose codeword
\* length is not divisible by the folding factor.
DivisibilityEnforced ==
    /\ \A l \in 1..Len(prover.layers) : Len(prover.codewords[l]) % K = 0
    /\ Len(channel.log)
          <= 2 * Cardinality({l \in 1..Len(prover.codewords) :
                                  Len(prover.codewords[l]) % K = 0})

\* C20: the fold of layer l reads layer l's codeword on the coset of offset
\* g^(k^l): codeword l+1 is apply_drp of codeword l with that offset.
PerLayerDomain ==
    DivisibleUpToRemainder
        => \A l \in 1..Len(prover.layers) :
              CodewordAfter(l)
                 = apply_drp(prover.codewords[l],
                             Pow(GENERATOR, IntPow(K, l - 1)), prover.alphas[l], K)

CallReturned(op) == call.op = op /\ call.pc = "returned"

\* C13: fold_positions returns a strictly ascending sequence of elements of
\* [0, m) whose set is { p mod m : p in positions }.
FoldPositionsSorted ==
    CallReturned("fold_positions")
        => /\ StrictlyAscending(call.result)
           /\ \A j \in 1..Len(call.result) :
                 call.result[j] >= 0 /\ call.result[j] < call.args.max
           /\ Elements(call.result)
                 = {p % call.args.max : p \in Elements(call.args.positions)}

FoldPositionsSortedWitness ==
    /\ CallReturned("fold_positions")
    /\ call.args.positions = <<5, 2, 1>>
    /\ call.args.max = 4
    /\ call.result = <<1, 2>>

\* n divided by k, c times over (integer division)
RECURSIVE DivTimes(_, _, _)
DivTimes(n, k, c) == IF c = 0 THEN n ELSE DivTimes(n \div k, k, c - 1)

\* C14: num_layers(n) is the least c with n divided by k c times <= the maximum
\* remainder size; remainder_size(n) is that value: it is <= the maximum, equals
\* n divided num_layers(n) times, and both leave n <= maximum alone.
OptionsArithmetic ==
    LET n == call.args.domain_size
        k == call.args.options.folding_factor
        m == call.args.options.max_remainder_size
    IN  /\ CallReturned("num_layers")
              => /\ DivTimes(n, k, call.result) <= m
                 /\ \A c \in 0..(call.result - 1) : DivTimes(n, k, c) > m
                 /\ (n <= m => call.result = 0)
        /\ CallReturned("remainder_size")
              => /\ call.result <= m
                 /\ call.result = DivTimes(n, k, num_layers(call.args.options, n))
                 /\ \A c \in 0..n :
                       (DivTimes(n, k, c) <= m /\ \A b \in 0..(c - 1) : DivTimes(n, k, b) > m)
                           => call.result = DivTimes(n, k, c)
                 /\ (n <= m => call.result = n)

OptionsArithmeticWitness ==
    /\ CallReturned("num_layers")
    /\ call.args.domain_size = 19
    /\ call.args.options.folding_factor = 2
    /\ call.args.options.max_remainder_size = 3
    /\ call.result = 3

\* C15: FriOptions::new fails with a ConfigurationError on a folding factor
\* outside {2, 4, 8, 16} or a maximum remainder size below the blowup factor.
OptionsValidated ==
    CallReturned("FriOptions::new")
        => IF \/ call.args.folding_factor \notin SupportedBuild
              \/ call.args.max_remainder_size < call.args.blowup_factor
           THEN call.result.error = "ConfigurationError"
           ELSE call.result.error = "none"

\* the codeword lengths FriVerifier::new walks through, and the proof layers
\* (0-based, the last one left out) whose length the folding factor does not divide
VerifierLen(i) ==
    DivTimes(NextPowerOfTwo(call.args.max_poly_degree) * call.args.options.blowup_factor,
             call.args.options.folding_factor, i)
TruncatedLayers ==
    {i \in 0..(Len(call.args.proof.layers) - 2) :
        VerifierLen(i) % call.args.options.folding_factor # 0}
FirstTruncation ==
    LET i == CHOOSE i \in TruncatedLayers : \A j \in TruncatedLayers : i <= j
    IN  <<VerifierLen(i), call.args.options.folding_factor, i>>
VerifierVerdict ==
    IF TruncatedLayers = {}
    THEN call.result.result = "ok"
    ELSE call.result.result = "truncation" /\ call.result.error = FirstTruncation
EveryLayerHasPath ==
    \A l \in 1..Len(call.args.proof.layers) : call.args.proof.layers[l].proofs # <<>>

\* C16 (as stated): FriVerifier::new returns CodewordTruncation(len_i, k, i) for
\* the least proof layer i, not the last, with len_i mod k # 0, Ok when there is
\* none; and with a blowup factor of 3 it returns CodewordTruncation.
TruncationAnyProof ==
    CallReturned("FriVerifier::new")
        => /\ VerifierVerdict
           /\ (call.args.options.blowup_factor = 3 => call.result.result = "truncation")

\* C16 (amended): the same verdict for proofs whose layers each carry a Merkle
\* path; a blowup factor of 3 gives CodewordTruncation exactly when such a layer
\* exists.
TruncationAtFirstLayer ==
    CallReturned("FriVerifier::new") /\ EveryLayerHasPath => VerifierVerdict

TruncationAtFirstLayerWitness ==
    /\ CallReturned("FriVerifier::new") /\ EveryLayerHasPath
    /\ call.args.options.blowup_factor = 3
    /\ call.result.result = "truncation"
    /\ call.result.error = <<3, 2, 1>>

\* coefficient i of the alpha-combination of the k phase polynomials of c
RECURSIVE PhaseSum(_, _, _, _, _)
PhaseSum(c, alpha, k, i, j) ==
    IF j >= k THEN 0
    ELSE Add(Mul(c[i * k + j + 1], Pow(alpha, j)), PhaseSum(c, alpha, k, i, j + 1))
FoldedCoefficients(c, alpha, k) ==
    [i \in 1..(Len(c) \div k) |-> PhaseSum(c, alpha, k, i - 1, 0)]

\* C18: on the n evaluations of c on offset * <w>, apply_drp returns the n/k
\* evaluations, on offset^k * <w^k>, of the polynomial with coefficients
\* sum_j c[i*k + j] * alpha^j.
DrpLaw ==
    CallReturned("apply_drp")
        => LET a == call.args
               n == Len(a.coeffs)
               w == RootOfUnity(n)
               folded == FoldedCoefficients(a.coeffs, a.alpha, a.folding_factor)
           IN  /\ Len(call.result) = n \div a.folding_factor
               /\ \A i \in 1..Len(call.result) :
                     call.result[i]
                        = Evaluate(folded,
                                   Mul(Pow(a.offset, a.folding_factor),
                                       Pow(Pow(w, a.folding_factor), i - 1)))

DrpLawWitness ==
    /\ CallReturned("apply_drp")
    /\ Len(call.args.coeffs) = 8
    /\ call.args.folding_factor = 4
    /\ call.args.alpha = 2
    /\ call.args.offset = GENERATOR
    /\ call.args.coeffs[8] = 1 /\ call.args.coeffs[3] = 1
    /\ Len(call.result) = 2
    /\ call.result[1] # call.result[2]

IsPrefix(s, t) == Len(s) <= Len(t) /\ SubSeq(t, 1, Len(s)) = s

\* C21: the prover's layers are append-only. Every step leaves the options and
\* the layers already built as they are; a build_layer step that returns appends
\* exactly one layer, the one over the codeword it was given; the loop of
\* build_layers only starts on a prover with no layers, and a build_layers call
\* on a prover that has layers stops at the assertion, the transcript and the
\* layers untouched.
LayersAppendOnly ==
    [][/\ options' = options
       /\ IsPrefix(prover.layers, prover'.layers)
       /\ (pc = "building" /\ pc' # "panic"
              => /\ Len(prover'.layers) = Len(prover.layers) + 1
                 /\ prover'.layers[Len(prover'.layers)].tree
                       = LayerTree(prover.evaluations, K))
       /\ (pc # "building" => prover'.layers = prover.layers)
       /\ (pc # "building" /\ pc' = "building" => prover.layers = <<>>)
       /\ (prover.panic = "none" /\ prover'.panic = "assert_layers_empty"
              => /\ prover.layers # <<>>
                 /\ channel' = channel
                 /\ prover'.layers = prover.layers)]_vars

LayersAppendOnlyWitness ==
    /\ pc = "panic" /\ prover.panic = "assert_layers_empty"
    /\ Len(prover.layers) >= 2
    /\ prover.layers[1] # prover.layers[2]

\* commit has returned (prove may have gone on to the query phase)
Committed == fri.pc \in {"sample", "query", "proved", "panic", "verified"}
HonestStream == fri.tampered = "none"
RoundRoot(i) == MerkleRootOf(MerkleNew(fri.codewords[i]))
\* what verify's round loop pulls from the stream as it stands
PulledRounds ==
    VerifyRounds(fri.cfg, fri.stream, Len(fri.input), Len(fri.input),
        [roots |-> <<MerkleRootOf(MerkleNew(fri.input))>>, alphas |-> <<>>, read |-> 0,
         verdict |-> "none", last_codeword |-> <<>>])

\* C22: for a codeword of power-of-two length, commit pushes the Merkle root of
\* every round but the first, in round order, then the last codeword and nothing
\* else; verify pulls exactly these objects in this order, so on an honest stream
\* it reports neither "Expected root" nor "Expected last codeword", and the last
\* root it holds is the Merkle root of the last codeword it pulled.
ProofStreamAgreement ==
    /\ (Committed /\ HonestStream /\ IsPowerOfTwo(Len(fri.input))
          => LET k == Len(fri.codewords)
                 r == PulledRounds
             IN  /\ k >= 1
                 /\ Len(fri.stream) >= k
                 /\ \A i \in 2..k : fri.stream[i - 1] = ObjMerkleRoot(RoundRoot(i))
                 /\ fri.stream[k] = ObjCodeword(fri.codewords[k])
                 /\ \A i \in (k + 1)..Len(fri.stream) :
                       fri.stream[i].kind \notin {"MerkleRoot", "Codeword"}
                 /\ r.verdict = "none"
                 /\ r.read = k - 1
                 /\ r.roots = [i \in 1..k |-> RoundRoot(i)]
                 /\ r.roots[Len(r.roots)] = MerkleRootOf(MerkleNew(fri.stream[k].data)))
    /\ (fri.pc = "verified" /\ HonestStream /\ IsPowerOfTwo(Len(fri.input))
          => /\ fri.verdict \notin {"Expected root", "Expected last codeword",
                                    "panic_pull", "panic_not_well_formed"}
             /\ fri.last_codeword = fri.codewords[Len(fri.codewords)]
             /\ fri.roots[Len(fri.roots)] = MerkleRootOf(MerkleNew(fri.last_codeword))
             /\ Len(fri.roots) = Len(fri.codewords))

ProofStreamAgreementWitness ==
    /\ fri.pc = "verified" /\ HonestStream
    /\ Len(fri.codewords) >= 3
    /\ fri.stream[1].kind = "MerkleRoot" /\ fri.stream[2].kind = "MerkleRoot"
    /\ fri.stream[3].kind = "Codeword"
    /\ fri.stream[1] # fri.stream[2]
    /\ Len(fri.roots) = 3

\* the initial codeword is longer than both bounds of the round loop
LongCodeword ==
    /\ fri.pc # "idle"
    /\ IsPowerOfTwo(Len(fri.input))
    /\ Len(fri.input) > ceil_power_of_two(NUM_COLINEARITY_CHECKS(fri.cfg))
    /\ Len(fri.input) > fri.cfg.EXPANSION_FACTOR
\* the query prove is about to make: its tree, the leafs read at the folded
\* index (next tree or last codeword) and the indices it passes
InLastQuery == fri.round >= Len(fri.trees) - 1
QueryTree == fri.trees[IF InLastQuery THEN Len(fri.trees) ELSE fri.round + 1]
QueryNextLeafs ==
    IF InLastQuery THEN fri.codewords[Len(fri.codewords)]
    ELSE fri.trees[fri.round + 2].leafs
QueryIndices == IF InLastQuery THEN LastIndices(fri) ELSE RoundIndices(fri, fri.round)

\* C23: when the initial codeword length is a power of two above
\* ceil_power_of_two(NUM_COLINEARITY_CHECKS) and above EXPANSION_FACTOR, every
\* query round of prove and query_last get NUM_COLINEARITY_CHECKS pairwise
\* distinct indices, and every leaf read (i and i + half in the current tree, i in
\* the next tree or the last codeword) is inside its vector.
QueryIndicesValid ==
    LongCodeword
       => /\ fri.panic # "index"
          /\ (fri.pc = "query"
                => LET n    == NUM_COLINEARITY_CHECKS(fri.cfg)
                       idx  == QueryIndices
                       half == Len(QueryTree.leafs) \div 2
                   IN  /\ fri.trees # <<>>
                       /\ Len(idx) = n
                       /\ \A i, j \in 1..n : i # j => idx[i] # idx[j]
                       /\ \A i \in 1..n :
                             /\ idx[i] < Len(QueryTree.leafs)
                             /\ idx[i] + half < Len(QueryTree.leafs)
                             /\ idx[i] < Len(QueryNextLeafs))

QueryIndicesValidWitness ==
    /\ LongCodeword
    /\ fri.pc = "proved"
    /\ Len(fri.trees) >= 2
    /\ NUM_COLINEARITY_CHECKS(fri.cfg) >= 2
    /\ fri.indices[1] > fri.indices[2]
    /\ \E i \in 1..Len(fri.stream) : fri.stream[i].kind = "FriLeafs"

\* draw c of a sample_indices call: the index its hash c gives
SampleDraw(c) == call.args.hashes[c] % call.args.max
\* draw c is the first with its residue modulo reduced_size
FirstOfResidue(c) ==
    \A b \in 1..(c - 1) :
        SampleDraw(b) % call.args.reduced_size # SampleDraw(c) % call.args.reduced_size

\* C24: sample_indices panics at its assertion exactly when n > reduced_size;
\* when it returns, it returns n indices of [0, max) with pairwise distinct
\* residues modulo reduced_size, and index j is the j-th draw that was the first
\* with its residue (order of first acceptance).
SampleIndicesContract ==
    CallReturned("sample_indices")
       => LET a   == call.args
              res == call.result
          IN  /\ (res.status = "assert") <=> (a.n > a.reduced_size)
              /\ (res.status = "returned"
                    => /\ a.n <= a.reduced_size
                       /\ Len(res.indices) = a.n
                       /\ \A j \in 1..a.n : res.indices[j] \in 0..(a.max - 1)
                       /\ \A i, j \in 1..a.n :
                             i # j => res.indices[i] % a.reduced_size
                                         # res.indices[j] % a.reduced_size
                       /\ \A j \in 1..a.n :
                             \E c \in 1..Len(a.hashes) :
                                /\ FirstOfResidue(c)
                                /\ Cardinality({b \in 1..c : FirstOfResidue(b)}) = j
                                /\ res.indices[j] = SampleDraw(c))

SampleIndicesContractWitness ==
    /\ CallReturned("sample_indices")
    /\ call.result.status = "returned"
    /\ call.args.n = 2 /\ call.args.reduced_size = 2 /\ call.args.max = 4
    /\ call.args.hashes = <<3, 1, 2>>
    /\ call.result.indices = <<3, 2>>

====
